---- MODULE Spec2Model ----
(***************************************************************************)
(* docker_stats_exporter: the process (main), one scrape (exporter.Collect) *)
(* and the per-container goroutines (exporter.collectContainer), with the  *)
(* container runtime as the environment that answers the three API calls.  *)
(*                                                                         *)
(* One scrape is modelled at a time: Collect keeps its WaitGroup, its list *)
(* and its goroutines in locals and the exporter's two fields are only     *)
(* read after main, so scrapes that overlap share nothing.                 *)
(***************************************************************************)
EXTENDS Integers, Sequences, FiniteSets, TLC

\* ---------------------------------------------------------------- bounds

\* Containers the runtime lists in one scrape, at most.
MaxContainers == 2
\* Width of the model's unsigned machine word (uint64 scaled down).
WordBits == 4
\* Width of the model's float mantissa (float64's 53 bits scaled down).
MantBits == 3

Modulus == 2 ^ WordBits
\* time.Second, in nanoseconds
NsPerSecond == 1000000000

UnitIds == 1 .. MaxContainers

VARIABLES
    environ,     \* os.Environ(), the LABEL_ variables: label name -> template source
    proc,        \* the process: "starting", "serving", "exited" (log.Fatal), "crashed" (panic)
    extraLabels, \* exporter.extraLabels: label name -> parsed template
    described,   \* the label names Describe handed to the registry at MustRegister
    phase,       \* where Collect stands: "idle", "list", "list_hung", "loop", "returned", "fatal"
    containers,  \* the slice ContainerList returned
    next,        \* index of the next element of the range loop of Collect
    wg,          \* sync.WaitGroup counter
    units,       \* the goroutines of this scrape, by position in the list
    sink,        \* what each goroutine has sent on ch, in its order of sending
    logged,      \* the lines log.Printf wrote in this scrape
    cancelled    \* the scraper gave up on this scrape (caller timeout)

vars == <<environ, proc, extraLabels, described, phase, containers, next, wg, units, sink, logged, cancelled>>

\* ------------------------------------------------------------ small helpers

Range(s) == {s[i] : i \in DOMAIN s}

\* Every order in which a range over a Go map with key set S may visit it.
Perms(S) == {p \in [1 .. Cardinality(S) -> S] : \A i, j \in DOMAIN p : p[i] = p[j] => i = j}

NoDuplicates(s) == \A i, j \in DOMAIN s : s[i] = s[j] => i = j

\* ------------------------------------------------ templates (text/template)

\* A template source is a sequence of tokens: "{{", "}}", or text. Inside an
\* action the text is a field path.
SrcState == <<"{{", ".Container.State", "}}">>
SrcHealth == <<"{{", ".ContainerJSON.State.Health.Status", "}}">>
SrcHealthText == <<"health: ", "{{", ".ContainerJSON.State.Health.Status", "}}">>
SrcUnclosed == <<"{{", ".Container.State">>

RECURSIVE ParseFrom(_, _)
\* template.Parse from token i on: [ok, segs]. An action must be closed.
ParseFrom(src, i) ==
    IF i > Len(src) THEN [ok |-> TRUE, segs |-> <<>>]
    ELSE IF src[i] = "{{"
    THEN IF i + 2 <= Len(src) /\ src[i + 1] \notin {"{{", "}}"} /\ src[i + 2] = "}}"
         THEN LET rest == ParseFrom(src, i + 3)
              IN  [ok |-> rest.ok,
                   segs |-> <<[kind |-> "field", text |-> src[i + 1]]>> \o rest.segs]
         ELSE [ok |-> FALSE, segs |-> <<>>]
    ELSE LET rest == ParseFrom(src, i + 1)
         IN  [ok |-> rest.ok,
              segs |-> <<[kind |-> "text", text |-> src[i]]>> \o rest.segs]

\* template.New(label).Parse(value)
Parse(src) == ParseFrom(src, 1)

\* The fields a template can reach in templateData{Container, ContainerJSON}.
\* Health is a pointer that is nil for a container without a health check.
FieldValue(container, containerJson, path) ==
    IF path = ".Container.State"
    THEN [ok |-> TRUE, val |-> container.State]
    ELSE IF path = ".ContainerJSON.State.Health.Status" /\ containerJson.Health # "nil"
    THEN [ok |-> TRUE, val |-> containerJson.Health]
    ELSE [ok |-> FALSE, val |-> ""]

RECURSIVE ExecFrom(_, _, _, _, _)
\* Template.Execute from segment i on, buf being what was written so far. It
\* stops at the first segment that fails and leaves the buffer as it is.
ExecFrom(segs, i, buf, container, containerJson) ==
    IF i > Len(segs) THEN [err |-> FALSE, out |-> buf]
    ELSE IF segs[i].kind = "text"
    THEN ExecFrom(segs, i + 1, Append(buf, segs[i].text), container, containerJson)
    ELSE LET f == FieldValue(container, containerJson, segs[i].text)
         IN  IF f.ok
             THEN ExecFrom(segs, i + 1, Append(buf, f.val), container, containerJson)
             ELSE [err |-> TRUE, out |-> buf]

\* labelTemplate.Execute(&labelValue, templateData); labelValue.String()
Execute(segs, container, containerJson) == ExecFrom(segs, 1, <<>>, container, containerJson)

\* ------------------------------------------------ prometheus descriptors

\* The label names prometheus accepts: [a-zA-Z_][a-zA-Z0-9_]*, not "__"-prefixed.
ValidLabelName(l) == l \notin {"", "bad-label", "__x"}

\* NewDesc records an error for an invalid or a repeated label name; Register
\* and MustNewConstMetric then fail on the descriptor.
DescErr(labelNames) ==
    \/ \E i \in DOMAIN labelNames : ~ValidLabelName(labelNames[i])
    \/ ~NoDuplicates(labelNames)

\* ------------------------------------------------------ the environment

\* os.Environ(), the LABEL_ variables only: label name -> template source.
EnvEmpty == [l \in {} |-> <<>>]
EnvHealth == [l \in {"health"} |-> SrcHealthText]
EnvStateHealth == [l \in {"state", "health"} |-> IF l = "state" THEN SrcState ELSE SrcHealth]
EnvName == [l \in {"name"} |-> SrcState]
EnvNameHealth == [l \in {"name"} |-> SrcHealth]
EnvBadTemplate == [l \in {"state"} |-> SrcUnclosed]
EnvStateBadHealth ==
    [l \in {"state", "health"} |-> IF l = "state" THEN SrcState ELSE SrcUnclosed]
EnvBadLabel == [l \in {"bad-label"} |-> SrcState]

Environments ==
    {EnvEmpty, EnvHealth, EnvStateHealth, EnvName, EnvNameHealth, EnvBadTemplate,
     EnvStateBadHealth, EnvBadLabel}

\* ------------------------------------------------------------ arithmetic

RECURSIVE Log2(_)
\* floor(log2(n)) for n >= 1
Log2(n) == IF n < 2 THEN 0 ELSE 1 + Log2(n \div 2)

\* float64(n) of an unsigned word: exact up to the mantissa's width, rounded
\* to the nearest representable value (ties to even) above it.
Float64(n) ==
    IF n < 2 ^ MantBits THEN n
    ELSE LET ulp == 2 ^ (Log2(n) - MantBits + 1)
             q == n \div ulp
             r == n % ulp
         IN  IF 2 * r < ulp THEN q * ulp
             ELSE IF 2 * r > ulp THEN (q + 1) * ulp
             ELSE IF q % 2 = 0 THEN q * ulp ELSE (q + 1) * ulp

\* A sample's value, a float64, as the fraction num / den.
Whole(n) == [num |-> Float64(n), den |-> 1]

\* float64(ns) / float64(time.Second)
nsToS(ns) == [num |-> Float64(ns), den |-> NsPerSecond]

\* a + b in an unsigned word
AddWord(a, b) == (a + b) % Modulus

\* ------------------------------------------- strings.Trim(name, "/")

RECURSIVE TrimLeft(_, _)
TrimLeft(s, c) == IF Len(s) > 0 /\ Head(s) = c THEN TrimLeft(Tail(s), c) ELSE s

RECURSIVE TrimRight(_, _)
TrimRight(s, c) ==
    IF Len(s) > 0 /\ s[Len(s)] = c THEN TrimRight(SubSeq(s, 1, Len(s) - 1), c) ELSE s

\* strings.Trim: every leading and every trailing c is cut.
Trim(s, c) == TrimRight(TrimLeft(s, c), c)

\* ------------------------------------- the derivation of the eight values

\* MemoryUsageBytes without the comparison that guards the subtraction: the
\* unsigned difference wraps when the cache exceeds the usage.
MemoryUsageBytesNoClamp(stats) ==
    LET cacheKey == IF "total_inactive_file" \in DOMAIN stats.memStats
                    THEN "total_inactive_file" ELSE "inactive_file"
    IN  IF cacheKey \in DOMAIN stats.memStats
        THEN (stats.memUsage + Modulus - stats.memStats[cacheKey]) % Modulus
        ELSE stats.memUsage

\* The gauge memory_usage_bytes: usage minus the inactive file cache, whose key
\* is "total_inactive_file" on cgroup v1 and "inactive_file" on cgroup v2.
MemoryUsageBytes(stats) ==
    LET memoryBytes == stats.memUsage
        cacheKey == IF "total_inactive_file" \in DOMAIN stats.memStats
                    THEN "total_inactive_file" ELSE "inactive_file"
    IN  IF cacheKey \in DOMAIN stats.memStats
        THEN LET cacheBytes == stats.memStats[cacheKey]
             IN  IF memoryBytes < cacheBytes THEN 0
                 ELSE (memoryBytes - cacheBytes) % Modulus
        ELSE memoryBytes

RECURSIVE RxBytesMixed(_)
\* RxBytes with a single total for both directions.
RxBytesMixed(networks) ==
    IF networks = <<>> THEN 0
    ELSE AddWord(AddWord(RxBytesMixed(Tail(networks)), Head(networks).RxBytes),
                 Head(networks).TxBytes)

RECURSIVE RxBytes(_)
\* rxBytes += network.RxBytes over stats.Networks
RxBytes(networks) ==
    IF networks = <<>> THEN 0 ELSE AddWord(RxBytes(Tail(networks)), Head(networks).RxBytes)

RECURSIVE TxBytes(_)
\* txBytes += network.TxBytes over stats.Networks
TxBytes(networks) ==
    IF networks = <<>> THEN 0 ELSE AddWord(TxBytes(Tail(networks)), Head(networks).TxBytes)

RECURSIVE BlkioBytesAnyCase(_, _)
\* BlkioBytes with the tag compared without regard to case.
BlkioBytesAnyCase(entries, op) ==
    IF entries = <<>> THEN 0
    ELSE IF Head(entries).Op = op \/ (Head(entries).Op = "Read" /\ op = "read")
    THEN AddWord(BlkioBytesAnyCase(Tail(entries), op), Head(entries).Value)
    ELSE BlkioBytesAnyCase(Tail(entries), op)

RECURSIVE BlkioBytes(_, _)
\* The switch on blkioStat.Op over IoServiceBytesRecursive, for one case.
BlkioBytes(entries, op) ==
    IF entries = <<>> THEN 0
    ELSE IF Head(entries).Op = op
    THEN AddWord(BlkioBytes(Tail(entries), op), Head(entries).Value)
    ELSE BlkioBytes(Tail(entries), op)

\* The eight resource metrics in the order collectContainer sends them: the
\* position of the goroutine, the metric's name, its kind and its value.
MetricValue(pc, stats) ==
    CASE pc = "cpu" -> nsToS(stats.cpu)
      [] pc = "memory_usage" -> Whole(MemoryUsageBytes(stats))
      [] pc = "memory_limit" -> Whole(stats.memLimit)
      [] pc = "network_rx" -> Whole(RxBytes(stats.networks))
      [] pc = "network_tx" -> Whole(TxBytes(stats.networks))
      [] pc = "blkio_read" -> Whole(BlkioBytes(stats.blkio, "read"))
      [] pc = "blkio_write" -> Whole(BlkioBytes(stats.blkio, "write"))
      [] pc = "pids" -> Whole(stats.pids)

MetricName(pc) ==
    CASE pc = "info" -> "docker_container_info"
      [] pc = "cpu" -> "docker_container_cpu_seconds_total"
      [] pc = "memory_usage" -> "docker_container_memory_usage_bytes"
      [] pc = "memory_limit" -> "docker_container_memory_limit_bytes"
      [] pc = "network_rx" -> "docker_container_network_rx_bytes_total"
      [] pc = "network_tx" -> "docker_container_network_tx_bytes_total"
      [] pc = "blkio_read" -> "docker_container_blkio_read_bytes_total"
      [] pc = "blkio_write" -> "docker_container_blkio_write_bytes_total"
      [] pc = "pids" -> "docker_container_pids"

MetricKind(pc) ==
    IF pc \in {"cpu", "network_rx", "network_tx", "blkio_read", "blkio_write"}
    THEN "counter" ELSE "gauge"

\* AfterSend with the two memory samples sent in the other order.
AfterSendLimitFirst(pc) ==
    CASE pc = "cpu" -> "memory_limit"
      [] pc = "memory_limit" -> "memory_usage"
      [] pc = "memory_usage" -> "network_rx"
      [] pc = "network_rx" -> "network_tx"
      [] pc = "network_tx" -> "blkio_read"
      [] pc = "blkio_read" -> "blkio_write"
      [] pc = "blkio_write" -> "pids"
      [] pc = "pids" -> "return"

\* The statement after the send at pc; "return" after the last one.
AfterSend(pc) ==
    CASE pc = "cpu" -> "memory_usage"
      [] pc = "memory_usage" -> "memory_limit"
      [] pc = "memory_limit" -> "network_rx"
      [] pc = "network_rx" -> "network_tx"
      [] pc = "network_tx" -> "blkio_read"
      [] pc = "blkio_read" -> "blkio_write"
      [] pc = "blkio_write" -> "pids"
      [] pc = "pids" -> "return"

ResourcePcs == {"cpu", "memory_usage", "memory_limit", "network_rx", "network_tx",
                "blkio_read", "blkio_write", "pids"}

\* ------------------------------------------------ what the runtime answers

States == {"running", "exited"}
Healths == {"nil", "healthy"}
Letters == <<"a", "b", "c", "d">>

\* types.Container as ContainerList returns it: the i-th container known to
\* the runtime, named "/a", "/b", ...
Container(i, state) ==
    [ID |-> i, Names |-> << <<"/", Letters[i]>> >>, State |-> state]

\* The answers of ContainerList(All: true): up to MaxContainers containers,
\* each running or not.
ContainerLists ==
    UNION {{[i \in 1 .. n |-> Container(i, st[i])] : st \in [1 .. n -> States]} :
           n \in 0 .. MaxContainers}

NoMemStats == [k \in {} |-> 0]

\* types.StatsJSON, the fields collectContainer reads.
ZeroStats ==
    [cpu |-> 0, memUsage |-> 0, memStats |-> NoMemStats, memLimit |-> 0,
     networks |-> <<>>, blkio |-> <<>>, pids |-> 0]

StatsV2 ==
    [cpu |-> 3, memUsage |-> 5, memStats |-> ("inactive_file" :> 1), memLimit |-> 9,
     networks |-> <<[RxBytes |-> 2, TxBytes |-> 3]>>,
     blkio |-> <<[Op |-> "read", Value |-> 4], [Op |-> "write", Value |-> 1]>>,
     pids |-> 5]

StatsV1 ==
    [cpu |-> 1, memUsage |-> 1,
     memStats |-> ("total_inactive_file" :> 2) @@ ("inactive_file" :> 0), memLimit |-> 0,
     networks |-> <<>>, blkio |-> <<[Op |-> "total", Value |-> 7]>>, pids |-> 1]

\* The snapshot the runtime answers with for container id during a scrape: a
\* cgroup v2 container and a cgroup v1 container in turn.
StatsOf(id) == IF id % 2 = 1 THEN StatsV2 ELSE StatsV1

\* ------------------------------------------------------------ goroutines

NoContainer == [ID |-> 0, Names |-> <<>>, State |-> ""]

\* The locals of one goroutine of Collect and of its call of collectContainer.
NoUnit ==
    [pc |-> "none",               \* the statement it stands at
     hung |-> FALSE,              \* its pending runtime call will never answer
     container |-> NoContainer,   \* container := container
     containerJson |-> [Health |-> "nil"],
     labelsNames |-> <<>>,
     labelsValues |-> <<>>,
     renderErr |-> FALSE,         \* some labelTemplate.Execute returned an error
     statsCalls |-> 0,            \* calls of ContainerStatsOneShot
     body |-> "none",             \* statsReader.Body: "none", "open", "closed"
     closes |-> 0,                \* calls of statsReader.Body.Close
     stats |-> ZeroStats,
     err |-> ""]                  \* what collectContainer returns

\* Returned with Body.Close called at the end of the function instead of
\* deferred: a return with an error leaves the stream open.
ReturnedNoDefer(unit, err) ==
    [unit EXCEPT !.pc = "done", !.err = err,
                 !.body = IF @ = "open" /\ err = "" THEN "closed" ELSE @,
                 !.closes = IF unit.body = "open" /\ err = "" THEN @ + 1 ELSE @]

\* A return of collectContainer with err: the deferred Body.Close runs if the
\* defer statement was reached, that is if the stream was opened.
Returned(unit, err) ==
    [unit EXCEPT !.pc = "done", !.err = err,
                 !.body = IF @ = "open" THEN "closed" ELSE @,
                 !.closes = IF unit.body = "open" THEN @ + 1 ELSE @]

\* ConstMetric with the labels ranged over again for each resource sample; the
\* map is visited in the reverse of the first order.
ConstMetricReversed(unit, pc, value) ==
    [metric |-> MetricName(pc), kind |-> MetricKind(pc),
     labelsNames |-> IF pc = "info" THEN unit.labelsNames
                     ELSE [i \in DOMAIN unit.labelsNames |->
                              unit.labelsNames[Len(unit.labelsNames) + 1 - i]],
     labelsValues |-> IF pc = "info" THEN unit.labelsValues
                      ELSE [i \in DOMAIN unit.labelsValues |->
                               unit.labelsValues[Len(unit.labelsValues) + 1 - i]],
     value |-> value]

\* prometheus.MustNewConstMetric(prometheus.NewDesc(name, "", labelsNames, nil),
\* kind, value, labelsValues...)
ConstMetric(unit, pc, value) ==
    [metric |-> MetricName(pc), kind |-> MetricKind(pc),
     labelsNames |-> unit.labelsNames, labelsValues |-> unit.labelsValues,
     value |-> value]

\* ---------------------------------------------------------------- Init

Init ==
    /\ environ \in Environments
    /\ proc = "starting"
    /\ extraLabels = [l \in {} |-> <<>>]
    /\ described = <<>>
    /\ phase = "idle"
    /\ containers = <<>>
    /\ next = 1
    /\ wg = 0
    /\ units = [u \in UnitIds |-> NoUnit]
    /\ sink = [u \in UnitIds |-> <<>>]
    /\ logged = {}
    /\ cancelled = FALSE

\* ---------------------------------------------------------------- main

\* Main with log.Printf in the place of log.Fatalf for a template that does
\* not parse: what Parse returned is stored and main goes on.
MainParseErrorLogged ==
    /\ proc = "starting"
    /\ \E clientOk \in BOOLEAN, listenOk \in BOOLEAN :
          LET parsed == [l \in DOMAIN environ |-> Parse(environ[l])]
          IN  IF ~clientOk
              THEN proc' = "exited" /\ UNCHANGED <<extraLabels, described>>
              ELSE \E labels \in Perms(DOMAIN environ) :
                      /\ extraLabels' = [l \in DOMAIN environ |-> parsed[l].segs]
                      /\ described' = labels
                      /\ proc' = IF DescErr(labels) THEN "crashed"
                                 ELSE IF listenOk THEN "serving" ELSE "exited"
    /\ UNCHANGED <<environ, phase, containers, next, wg, units, sink, logged, cancelled>>

\* main: parse the LABEL_ templates (a template that does not parse ends the
\* process), create the docker client, register the exporter (the registry
\* calls Describe and panics on an invalid descriptor) and serve.
Main ==
    /\ proc = "starting"
    /\ \E clientOk \in BOOLEAN, listenOk \in BOOLEAN :
          LET parsed == [l \in DOMAIN environ |-> Parse(environ[l])]
          IN  IF (\E l \in DOMAIN environ : ~parsed[l].ok) \/ ~clientOk
              THEN proc' = "exited" /\ UNCHANGED <<extraLabels, described>>
              ELSE \E labels \in Perms(DOMAIN environ) :
                      /\ extraLabels' = [l \in DOMAIN environ |-> parsed[l].segs]
                      /\ described' = labels
                      /\ proc' = IF DescErr(labels) THEN "crashed"
                                 ELSE IF listenOk THEN "serving" ELSE "exited"
    /\ UNCHANGED <<environ, phase, containers, next, wg, units, sink, logged, cancelled>>

\* -------------------------------------------------------------- Collect

\* StartCollect with the samples kept in a field of the exporter, which the
\* next scrape finds as the last one left it.
StartCollectKeepsSink ==
    /\ proc = "serving"
    /\ phase \in {"idle", "returned"}
    /\ phase' = "list"
    /\ containers' = <<>>
    /\ next' = 1
    /\ wg' = 0
    /\ units' = [u \in UnitIds |-> NoUnit]
    /\ logged' = {}
    /\ cancelled' = FALSE
    /\ UNCHANGED <<environ, proc, extraLabels, described, sink>>

\* The registry calls Collect for a scrape; Collect calls ContainerList.
StartCollect ==
    /\ proc = "serving"
    /\ phase \in {"idle", "returned"}
    /\ phase' = "list"
    /\ containers' = <<>>
    /\ next' = 1
    /\ wg' = 0
    /\ units' = [u \in UnitIds |-> NoUnit]
    /\ sink' = [u \in UnitIds |-> <<>>]
    /\ logged' = {}
    /\ cancelled' = FALSE
    /\ UNCHANGED <<environ, proc, extraLabels, described>>

\* ContainerList answers with the containers.
ListOk ==
    /\ proc = "serving"
    /\ phase = "list"
    /\ \E cs \in ContainerLists : containers' = cs
    /\ phase' = "loop"
    /\ next' = 1
    /\ UNCHANGED <<environ, proc, extraLabels, described, wg, units, sink, logged, cancelled>>

\* ContainerList answers with an error: log.Fatalf ends the process.
ListFails ==
    /\ proc = "serving"
    /\ phase = "list"
    /\ proc' = "exited"
    /\ phase' = "fatal"
    /\ UNCHANGED <<environ, extraLabels, described, containers, next, wg, units, sink, logged, cancelled>>

\* The runtime will never answer ContainerList.
ListHangs ==
    /\ proc = "serving"
    /\ phase = "list"
    /\ phase' = "list_hung"
    /\ UNCHANGED <<environ, proc, extraLabels, described, containers, next, wg, units, sink, logged, cancelled>>

\* Spawn without the copy "container := container": the goroutines read the
\* one variable of the loop, which holds the last element when they run.
SpawnSharedVariable ==
    /\ proc = "serving"
    /\ phase = "loop"
    /\ next <= Len(containers)
    /\ wg' = wg + 1
    /\ units' = [units EXCEPT ![next] =
                    [NoUnit EXCEPT !.pc = "inspect",
                                   !.container = containers[Len(containers)]]]
    /\ next' = next + 1
    /\ UNCHANGED <<environ, proc, extraLabels, described, phase, containers, sink, logged, cancelled>>

\* One turn of the range loop: wg.Add(1) and the go statement, whose goroutine
\* calls ContainerInspect on its own copy of the container.
Spawn ==
    /\ proc = "serving"
    /\ phase = "loop"
    /\ next <= Len(containers)
    /\ wg' = wg + 1
    /\ units' = [units EXCEPT ![next] =
                    [NoUnit EXCEPT !.pc = "inspect", !.container = containers[next]]]
    /\ next' = next + 1
    /\ UNCHANGED <<environ, proc, extraLabels, described, phase, containers, sink, logged, cancelled>>

\* WgWait without the wait: Collect returns when the loop is over.
WgWaitNoWait ==
    /\ proc = "serving"
    /\ phase = "loop"
    /\ next > Len(containers)
    /\ phase' = "returned"
    /\ UNCHANGED <<environ, proc, extraLabels, described, containers, next, wg, units, sink, logged, cancelled>>

\* wg.Wait() returns, and Collect with it.
WgWait ==
    /\ proc = "serving"
    /\ phase = "loop"
    /\ next > Len(containers)
    /\ wg = 0
    /\ phase' = "returned"
    /\ UNCHANGED <<environ, proc, extraLabels, described, containers, next, wg, units, sink, logged, cancelled>>

\* The scraper gives up on the scrape in progress. Collect and the runtime
\* calls run under context.TODO(): nothing in the exporter observes it.
Cancel ==
    /\ proc = "serving"
    /\ phase \in {"list", "list_hung", "loop"}
    /\ ~cancelled
    /\ cancelled' = TRUE
    /\ UNCHANGED <<environ, proc, extraLabels, described, phase, containers, next, wg, units, sink, logged>>

\* ----------------------------------------------------- collectContainer

\* The goroutine of container u exists and the process lives.
Running(u) == proc = "serving" /\ units[u].pc \notin {"none", "done"}

Rest == <<environ, extraLabels, described, phase, containers, next, cancelled>>

\* Step with log.Fatalf in the place of log.Printf: an error of one container
\* ends the process.
StepFatal(u, unit) ==
    /\ units' = [units EXCEPT ![u] = unit]
    /\ proc' = IF unit.pc = "done" /\ unit.err # "" THEN "exited" ELSE proc
    /\ IF unit.pc = "done"
       THEN /\ logged' = IF unit.err # ""
                         THEN logged \cup {[id |-> unit.container.ID, err |-> unit.err]}
                         ELSE logged
            /\ wg' = wg - 1
       ELSE UNCHANGED <<wg, logged>>

\* The goroutine of container u goes on as unit. When collectContainer has
\* returned, the goroutine logs the error, if any, with log.Printf and its
\* deferred wg.Done() runs; the process goes on.
Step(u, unit) ==
    /\ units' = [units EXCEPT ![u] = unit]
    /\ proc' = proc
    /\ IF unit.pc = "done"
       THEN /\ logged' = IF unit.err # ""
                         THEN logged \cup {[id |-> unit.container.ID, err |-> unit.err]}
                         ELSE logged
            /\ wg' = wg - 1
       ELSE UNCHANGED <<wg, logged>>

\* ContainerInspect answers with the container's metadata.
InspectOk(u) ==
    /\ Running(u)
    /\ units[u].pc = "inspect" /\ ~units[u].hung
    /\ \E health \in Healths :
          Step(u, [units[u] EXCEPT !.containerJson = [Health |-> health], !.pc = "labels"])
    /\ UNCHANGED <<sink, Rest>>

\* InspectFails with the info sample sent from the list's data alone before
\* the error is returned.
InspectFailsAfterInfo(u) ==
    /\ Running(u)
    /\ units[u].pc = "inspect" /\ ~units[u].hung
    /\ LET named == [units[u] EXCEPT
                        !.labelsNames = <<"name">>,
                        !.labelsValues = <<Trim(units[u].container.Names[1], "/")>>]
       IN  /\ sink' = [sink EXCEPT ![u] = Append(@, ConstMetric(named, "info", Whole(1)))]
           /\ Step(u, Returned(named, "inspect"))
    /\ UNCHANGED Rest

\* ContainerInspect answers with an error: collectContainer returns it.
InspectFails(u) ==
    /\ Running(u)
    /\ units[u].pc = "inspect" /\ ~units[u].hung
    /\ Step(u, Returned(units[u], "inspect"))
    /\ UNCHANGED <<sink, Rest>>

\* Labelled with a label left out when its template fails to render.
LabelledSkipFailed(unit, order) ==
    LET run == [l \in DOMAIN extraLabels |->
                   Execute(extraLabels[l], unit.container, unit.containerJson)]
        kept == SelectSeq(order, LAMBDA l : ~run[l].err)
    IN  [unit EXCEPT
            !.labelsNames = <<"name">> \o kept,
            !.labelsValues = <<Trim(unit.container.Names[1], "/")>> \o
                             [i \in DOMAIN kept |-> run[kept[i]].out],
            !.renderErr = \E l \in DOMAIN extraLabels : run[l].err,
            !.pc = "info"]

\* Labelled with Execute's error returned from collectContainer.
LabelledAbortOnError(unit, order) ==
    LET run == [i \in DOMAIN order |->
                   Execute(extraLabels[order[i]], unit.container, unit.containerJson)]
    IN  IF \E i \in DOMAIN order : run[i].err
        THEN [Returned(unit, "cannot render label") EXCEPT !.renderErr = TRUE]
        ELSE [unit EXCEPT
                 !.labelsNames = <<"name">> \o order,
                 !.labelsValues = <<Trim(unit.container.Names[1], "/")>> \o
                                  [i \in DOMAIN order |-> run[i].out],
                 !.pc = "info"]

\* The loop over e.extraLabels, visiting the map in the given order: the names
\* and the rendered values are appended in that order after "name" and the
\* trimmed first name; Execute's error is dropped.
Labelled(unit, order) ==
    LET run == [i \in DOMAIN order |->
                   Execute(extraLabels[order[i]], unit.container, unit.containerJson)]
    IN  [unit EXCEPT
            !.labelsNames = <<"name">> \o order,
            !.labelsValues = <<Trim(unit.container.Names[1], "/")>> \o
                             [i \in DOMAIN order |-> run[i].out],
            !.renderErr = \E i \in DOMAIN order : run[i].err,
            !.pc = "info"]

ResolveLabels(u) ==
    /\ Running(u)
    /\ units[u].pc = "labels"
    /\ \E order \in Perms(DOMAIN extraLabels) : Step(u, Labelled(units[u], order))
    /\ UNCHANGED <<sink, Rest>>

\* AfterInfo without the test of container.State.
AfterInfoAlwaysStats(unit) ==
    [unit EXCEPT !.pc = "stats", !.statsCalls = @ + 1]

\* What follows the send of the info sample: the return for a container that
\* is not running, the call of ContainerStatsOneShot for one that is.
AfterInfo(unit) ==
    IF unit.container.State # "running" THEN Returned(unit, "")
    ELSE [unit EXCEPT !.pc = "stats", !.statsCalls = @ + 1]

\* ch <- MustNewConstMetric(docker_container_info ... 1): a panic on an invalid
\* descriptor, which nothing recovers, ends the process.
EmitInfo(u) ==
    /\ Running(u)
    /\ units[u].pc = "info"
    /\ IF DescErr(units[u].labelsNames)
       THEN proc' = "crashed" /\ UNCHANGED <<units, sink, wg, logged>>
       ELSE /\ sink' = [sink EXCEPT ![u] = Append(@, ConstMetric(units[u], "info", Whole(1)))]
            /\ Step(u, AfterInfo(units[u]))
    /\ UNCHANGED Rest

\* ContainerStatsOneShot answers with a response, whose body is now open; the
\* defer of its Close follows at once.
StatsOk(u) ==
    /\ Running(u)
    /\ units[u].pc = "stats" /\ ~units[u].hung
    /\ Step(u, [units[u] EXCEPT !.body = "open", !.pc = "decode"])
    /\ UNCHANGED <<sink, Rest>>

\* ContainerStatsOneShot answers with an error.
StatsFails(u) ==
    /\ Running(u)
    /\ units[u].pc = "stats" /\ ~units[u].hung
    /\ Step(u, Returned(units[u], "cannot get stats"))
    /\ UNCHANGED <<sink, Rest>>

\* The decoder reads the body to its end and it is a stats document.
DecodeOk(u) ==
    /\ Running(u)
    /\ units[u].pc = "decode" /\ ~units[u].hung
    /\ Step(u, [units[u] EXCEPT !.stats = StatsOf(units[u].container.ID), !.pc = "cpu"])
    /\ UNCHANGED <<sink, Rest>>

\* The body is no stats document (or the read fails).
DecodeFails(u) ==
    /\ Running(u)
    /\ units[u].pc = "decode" /\ ~units[u].hung
    /\ Step(u, Returned(units[u], "cannot decode stats"))
    /\ UNCHANGED <<sink, Rest>>

\* One of the eight sends of a resource sample; the return follows the last.
EmitResource(u) ==
    /\ Running(u)
    /\ units[u].pc \in ResourcePcs
    /\ IF DescErr(units[u].labelsNames)
       THEN proc' = "crashed" /\ UNCHANGED <<units, sink, wg, logged>>
       ELSE LET pc == units[u].pc
            IN  /\ sink' = [sink EXCEPT ![u] =
                               Append(@, ConstMetric(units[u], pc, MetricValue(pc, units[u].stats)))]
                /\ Step(u, IF AfterSend(pc) = "return" THEN Returned(units[u], "")
                           ELSE [units[u] EXCEPT !.pc = AfterSend(pc)])
    /\ UNCHANGED Rest

\* The runtime will never answer the call the goroutine waits for (nor send
\* the rest of the body it reads).
Hang(u) ==
    /\ Running(u)
    /\ units[u].pc \in {"inspect", "stats", "decode"} /\ ~units[u].hung
    /\ units' = [units EXCEPT ![u].hung = TRUE]
    /\ UNCHANGED <<proc, wg, sink, logged, Rest>>

UnitStep(u) ==
    \/ InspectOk(u) \/ InspectFails(u) \/ ResolveLabels(u) \/ EmitInfo(u)
    \/ StatsOk(u) \/ StatsFails(u) \/ DecodeOk(u) \/ DecodeFails(u)
    \/ EmitResource(u)

\* A scrape whose runtime answers or is slow: what is not answered yet may
\* still be answered.
Next ==
    \/ Main \/ StartCollect \/ ListOk \/ ListFails \/ Spawn \/ WgWait
    \/ \E u \in UnitIds : UnitStep(u)

Spec == Init /\ [][Next]_vars

\* The same with a runtime that may leave a call unanswered for ever and a
\* scraper that may give up.
NextFair ==
    \/ Main \/ StartCollect \/ ListOk \/ ListFails \/ ListHangs \/ Spawn \/ WgWait \/ Cancel
    \/ \E u \in UnitIds : UnitStep(u) \/ Hang(u)

\* The goroutines are scheduled fairly, wg.Wait returns once the counter is 0,
\* and the runtime answers every call it has not left hanging.
FairSpec ==
    /\ Init /\ [][NextFair]_vars
    /\ WF_vars(ListOk \/ ListFails)
    /\ WF_vars(Spawn)
    /\ WF_vars(WgWait)
    /\ \A u \in UnitIds : WF_vars(UnitStep(u))
\* ------------------------------------------- the derivation on its own

\* Interfaces in stats.Networks and entries in IoServiceBytesRecursive, at most.
MaxInterfaces == 2
MaxBlkioEntries == 2

\* Unsigned words: the small ones and the largest ones.
Words == {0, 1, 2, Modulus - 2, Modulus - 1}
FewWords == {0, 1, Modulus - 1}

\* MemoryStats.Stats: any of the two cache keys and an unrelated one.
MemStatsMaps ==
    UNION {[keys -> Words] : keys \in SUBSET {"total_inactive_file", "inactive_file"}}
    \cup {("cache" :> 1), ("cache" :> 2) @@ ("inactive_file" :> 1)}

SeqsUpTo(S, n) == UNION {[1 .. k -> S] : k \in 0 .. n}

NetworkLists == SeqsUpTo([RxBytes : FewWords, TxBytes : FewWords], MaxInterfaces)

BlkioLists ==
    SeqsUpTo([Op : {"read", "write", "Read", "total", "async"}, Value : {1, 2, Modulus - 1}],
             MaxBlkioEntries)

\* The stats documents the derivation is checked on: each part of the
\* document ranges over its values while the other parts are those of StatsV2.
StatsDomain ==
    {[StatsV2 EXCEPT !.memUsage = m, !.memStats = ms] : m \in Words, ms \in MemStatsMaps}
    \cup {[StatsV2 EXCEPT !.networks = n] : n \in NetworkLists}
    \cup {[StatsV2 EXCEPT !.blkio = b] : b \in BlkioLists}
    \cup {[StatsV2 EXCEPT !.cpu = w, !.memLimit = x, !.pids = y] :
             w \in Words, x \in FewWords, y \in FewWords}

\* Characters of a name in container.Names[0], at most.
MaxNameLen == 4

\* The first names the derivation of the "name" label is checked on: every
\* string of separators and letters up to MaxNameLen.
NameDomain == SeqsUpTo({"/", "a"}, MaxNameLen)

\* A scrape of one container without custom labels, for every stats document
\* at the point where the document of a running container has just been
\* decoded, and for every first name at the point where a container that is
\* not running has just been inspected.
DeriveInit ==
    /\ environ = EnvEmpty
    /\ proc = "serving"
    /\ extraLabels = [l \in {} |-> <<>>]
    /\ described = <<>>
    /\ phase = "loop"
    /\ next = 2
    /\ wg = 1
    /\ \/ \E s \in StatsDomain :
             LET spawned == [NoUnit EXCEPT !.pc = "inspect",
                                           !.container = Container(1, "running")]
                 labelled == Labelled(spawned, <<>>)
             IN  /\ containers = <<Container(1, "running")>>
                 /\ units = [u \in UnitIds |->
                               IF u = 1
                               THEN [AfterInfo(labelled) EXCEPT !.body = "open", !.stats = s,
                                                               !.pc = "cpu"]
                               ELSE NoUnit]
                 /\ sink = [u \in UnitIds |->
                               IF u = 1 THEN <<ConstMetric(labelled, "info", Whole(1))>>
                               ELSE <<>>]
       \/ \E name \in NameDomain :
             LET container == [Container(1, "exited") EXCEPT !.Names = <<name>>]
             IN  /\ containers = <<container>>
                 /\ units = [u \in UnitIds |->
                               IF u = 1
                               THEN [NoUnit EXCEPT !.pc = "labels", !.container = container]
                               ELSE NoUnit]
                 /\ sink = [u \in UnitIds |-> <<>>]
    /\ logged = {}
    /\ cancelled = FALSE

DeriveNext ==
    \/ WgWait
    \/ \E u \in UnitIds : ResolveLabels(u) \/ EmitInfo(u) \/ EmitResource(u)

DeriveSpec == DeriveInit /\ [][DeriveNext]_vars

\* ------------------------------------------------------------ properties

Done(u) == units[u].pc = "done"

StatsErrs == {"cannot get stats", "cannot decode stats"}

One == [num |-> 1, den |-> 1]

\* The info sample of a container: the gauge docker_container_info, value 1,
\* with the labels resolved for it.
IsInfoOf(sample, unit) ==
    /\ sample.metric = "docker_container_info"
    /\ sample.kind = "gauge"
    /\ sample.value = One
    /\ sample.labelsNames = unit.labelsNames
    /\ sample.labelsValues = unit.labelsValues
    /\ sample.labelsNames[1] = "name"
    /\ sample.labelsValues[1] = <<Letters[unit.container.ID]>>

ResourceOrder ==
    <<"cpu", "memory_usage", "memory_limit", "network_rx", "network_tx",
      "blkio_read", "blkio_write", "pids">>

\* What a goroutine that has ended must have sent, from what the runtime
\* answered to it alone.
ExpectedSamples(unit) ==
    IF unit.err = "inspect" THEN <<>>
    ELSE IF unit.container.State # "running" \/ unit.err # ""
    THEN <<ConstMetric(unit, "info", One)>>
    ELSE <<ConstMetric(unit, "info", One)>> \o
         [i \in 1 .. 8 |->
             ConstMetric(unit, ResourceOrder[i],
                         MetricValue(ResourceOrder[i], StatsOf(unit.container.ID)))]

\* C1: a running container whose inspect succeeded and whose stats request or
\* stats decoding failed has sent its info sample (value 1) and no resource
\* sample; the failure neither ends the process nor fails the scrape, and every
\* other container that has ended has sent exactly what its own answers give.
C1_StatsFailureIsolated ==
    \A u \in UnitIds :
        (Done(u) /\ units[u].err \in StatsErrs) =>
            /\ units[u].container.State = "running"
            /\ Len(sink[u]) = 1
            /\ IsInfoOf(sink[u][1], units[u])
            /\ proc = "serving"
            /\ phase \in {"loop", "returned"}
            /\ \A v \in UnitIds \ {u} : Done(v) => sink[v] = ExpectedSamples(units[v])

C1_Witness ==
    /\ phase = "returned"
    /\ \E u, v \in UnitIds :
          /\ Done(u) /\ units[u].err = "cannot get stats"
          /\ Done(v) /\ units[v].err = "" /\ Len(sink[v]) = 9

\* C2: a listed container that is not running never has a stats snapshot
\* requested or a stream opened, sends at most one sample, and when its
\* inspect succeeded has sent, once it has ended, exactly one sample, the info
\* sample with value 1 and its labels.
C2_NotRunningOnlyInfo ==
    \A u \in UnitIds :
        (units[u].pc # "none" /\ units[u].container.State # "running") =>
            /\ units[u].statsCalls = 0
            /\ units[u].body = "none"
            /\ units[u].pc \in {"inspect", "labels", "info", "done"}
            /\ Len(sink[u]) <= 1
            /\ (Done(u) /\ units[u].err = "") =>
                   (Len(sink[u]) = 1 /\ IsInfoOf(sink[u][1], units[u]))

C2_Witness ==
    \E u \in UnitIds :
        /\ units[u].container.State = "exited"
        /\ Done(u) /\ units[u].err = ""
        /\ Len(sink[u]) = 1

\* C3: when Collect has returned every goroutine it started has ended, one for
\* each listed container, and from then on nothing is sent to the sink of that
\* scrape.
C3_FullFanIn ==
    /\ [](phase = "returned" =>
             /\ wg = 0
             /\ next = Len(containers) + 1
             /\ \A u \in UnitIds :
                   IF u <= Len(containers) THEN Done(u) ELSE units[u].pc = "none")
    /\ [][(phase = "returned" /\ phase' = "returned") => (sink' = sink /\ units' = units)]_vars

C3_Witness ==
    /\ phase = "returned"
    /\ Len(containers) >= 2
    /\ \E u, v \in UnitIds : u # v /\ Len(sink[u]) = 9 /\ Len(sink[v]) >= 1

\* C4: when the enumeration call fails the scrape is a failed scrape without
\* any sample and the process is still serving.
C4_EnumerationFailureIsLocal ==
    phase = "fatal" => (proc = "serving" /\ \A u \in UnitIds : sink[u] = <<>>)

\* C5: a stats stream is closed exactly once when the goroutine that opened it
\* has ended, on the successful path and on the decode error alike; a failed
\* stats request opens none; so no stream is open when Collect has returned.
C5_StreamsClosedOnce ==
    \A u \in UnitIds :
        /\ units[u].closes <= 1
        /\ units[u].closes = 1 <=> units[u].body = "closed"
        /\ units[u].body # "none" => units[u].statsCalls = 1
        /\ Done(u) => units[u].body # "open"
        /\ (Done(u) /\ units[u].err \in {"", "cannot decode stats"}
                    /\ units[u].container.State = "running") => units[u].closes = 1
        /\ (Done(u) /\ units[u].err = "cannot get stats") =>
               (units[u].body = "none" /\ units[u].closes = 0)
        /\ phase = "returned" => units[u].body # "open"

C5_Witness ==
    /\ phase = "returned"
    /\ \E u, v \in UnitIds :
          /\ units[u].err = "cannot decode stats" /\ units[u].closes = 1
          /\ units[v].err = "" /\ units[v].closes = 1

\* C6: once the scrape's context is cancelled, Collect eventually returns (or
\* the process has ended), whatever call the runtime leaves unanswered.
C6_CancelledScrapeReturns ==
    (cancelled /\ proc = "serving") ~> (phase = "returned" \/ proc # "serving")

\* Every sample in the sink of the scrape.
Samples == UNION {Range(sink[u]) : u \in UnitIds}

C8_OneLabelSetPerContainer ==
    \A u \in UnitIds : \A i \in DOMAIN sink[u] :
        /\ sink[u][i].labelsNames = sink[u][1].labelsNames
        /\ sink[u][i].labelsValues = sink[u][1].labelsValues
        /\ sink[u][i].labelsNames = units[u].labelsNames
        /\ sink[u][i].labelsValues = units[u].labelsValues
        /\ sink[u][i].labelsNames[1] = "name"
        /\ {sink[u][i].labelsNames[k] : k \in 2 .. Len(sink[u][i].labelsNames)}
               = DOMAIN extraLabels
        /\ Len(sink[u][i].labelsNames) = 1 + Cardinality(DOMAIN extraLabels)
        /\ Len(sink[u][i].labelsValues) = Len(sink[u][i].labelsNames)

C8_Witness ==
    \E u \in UnitIds :
        /\ Len(sink[u]) = 9
        /\ Len(sink[u][9].labelsNames) = 3

\* C9: a label template that fails to render stops nothing: the label loop
\* still ends at the send of the info sample, with the process, the sink and
\* the other goroutines as they were; the error is never returned; and once
\* the goroutine has ended it has sent its info sample and, if the container
\* is running and its stats succeeded, its eight resource samples, while the
\* other containers have sent what their own answers give.
C9_RenderFailureTolerated ==
    /\ [][\A u \in UnitIds :
             (units[u].pc = "labels" /\ units'[u] # units[u]) =>
                 /\ units'[u].pc = "info"
                 /\ units'[u].err = ""
                 /\ proc' = proc /\ phase' = phase /\ sink' = sink /\ wg' = wg
                 /\ \A v \in UnitIds \ {u} : units'[v] = units[v]]_vars
    /\ [](\A u \in UnitIds :
             units[u].renderErr =>
                 /\ units[u].pc \notin {"none", "inspect", "labels"}
                 /\ units[u].err \in {""} \cup StatsErrs
                 /\ Done(u) =>
                       /\ sink[u] = ExpectedSamples(units[u])
                       /\ IsInfoOf(sink[u][1], units[u])
                       /\ Len(sink[u]) =
                              IF units[u].container.State = "running" /\ units[u].err = ""
                              THEN 9 ELSE 1
                 /\ \A v \in UnitIds \ {u} : Done(v) => sink[v] = ExpectedSamples(units[v]))

C9_Witness ==
    \E u, v \in UnitIds :
        /\ units[u].renderErr /\ Done(u) /\ Len(sink[u]) = 9
        /\ units[v].renderErr /\ Done(v) /\ units[v].container.State = "exited"
        /\ Len(sink[v]) = 1

\* max(0, usage - cache) in the integers, cache being the value under
\* "total_inactive_file" if that key is there, else under "inactive_file" if
\* that one is, else nothing.
ExpectedMemoryUsage(stats) ==
    LET m == stats.memStats
        cache == IF "total_inactive_file" \in DOMAIN m THEN m["total_inactive_file"]
                 ELSE IF "inactive_file" \in DOMAIN m THEN m["inactive_file"]
                 ELSE 0
    IN  IF stats.memUsage - cache > 0 THEN stats.memUsage - cache ELSE 0

\* C10: the value of memory_usage_bytes is (the float64 of) max(0, usage -
\* cache) for every stats document; it is never negative and never above the
\* usage, as a wrapped unsigned difference would be.
C10_MemoryUsageClamped ==
    \A u \in UnitIds : \A i \in DOMAIN sink[u] :
        sink[u][i].metric = "docker_container_memory_usage_bytes" =>
            /\ sink[u][i].value = [num |-> Float64(ExpectedMemoryUsage(units[u].stats)),
                                   den |-> 1]
            /\ sink[u][i].value.num >= 0
            /\ sink[u][i].value.num <= Float64(units[u].stats.memUsage)

C10_Witness ==
    \E u \in UnitIds :
        LET m == units[u].stats.memStats
        IN  /\ Len(sink[u]) >= 3
            /\ sink[u][3].metric = "docker_container_memory_usage_bytes"
            /\ DOMAIN m = {"total_inactive_file", "inactive_file"}
            /\ m["total_inactive_file"] > units[u].stats.memUsage
            /\ m["inactive_file"] < units[u].stats.memUsage
            /\ sink[u][3].value.num = 0

RECURSIVE SumTo(_, _)
\* f[1] + ... + f[n] in the integers
SumTo(f, n) == IF n = 0 THEN 0 ELSE SumTo(f, n - 1) + f[n]

\* The sum of the byte counts of the records whose tag is exactly tag.
TaggedSum(entries, tag) ==
    SumTo([i \in DOMAIN entries |-> IF entries[i].Op = tag THEN entries[i].Value ELSE 0],
          Len(entries))

\* The float64 a sample carries for a total kept in an unsigned word.
AsSampleValue(total) == [num |-> Float64(total % Modulus), den |-> 1]

\* C11: for every list of block-I/O records, the value of
\* blkio_read_bytes_total is the sum of the byte counts of the records tagged
\* exactly "read" and that of blkio_write_bytes_total the sum over the records
\* tagged exactly "write" (sums in an unsigned word, carried as a float64);
\* records with any other tag ("Read", "total", "async") add to neither, and
\* without records both are 0.
C11_BlkioSumsByExactTag ==
    \A u \in UnitIds : \A i \in DOMAIN sink[u] :
        LET blkio == units[u].stats.blkio
            tagged == SelectSeq(blkio, LAMBDA e : e.Op \in {"read", "write"})
        IN  /\ sink[u][i].metric = "docker_container_blkio_read_bytes_total" =>
                  /\ sink[u][i].value = AsSampleValue(TaggedSum(blkio, "read"))
                  /\ sink[u][i].value = AsSampleValue(TaggedSum(tagged, "read"))
                  /\ blkio = <<>> => sink[u][i].value.num = 0
            /\ sink[u][i].metric = "docker_container_blkio_write_bytes_total" =>
                  /\ sink[u][i].value = AsSampleValue(TaggedSum(blkio, "write"))
                  /\ sink[u][i].value = AsSampleValue(TaggedSum(tagged, "write"))
                  /\ blkio = <<>> => sink[u][i].value.num = 0

C11_Witness ==
    \E u \in UnitIds :
        LET blkio == units[u].stats.blkio
        IN  /\ Len(sink[u]) >= 8
            /\ sink[u][7].metric = "docker_container_blkio_read_bytes_total"
            /\ sink[u][8].metric = "docker_container_blkio_write_bytes_total"
            /\ Len(blkio) = 2
            /\ blkio[1].Op = "read" /\ blkio[1].Value = 2
            /\ blkio[2].Op = "Read" /\ blkio[2].Value = 1
            /\ sink[u][7].value.num = 2
            /\ sink[u][8].value.num = 0

\* C12: for every list of network interfaces, the value of
\* network_rx_bytes_total is the sum of RxBytes and that of
\* network_tx_bytes_total the sum of TxBytes over all interfaces (sums in an
\* unsigned word, carried as a float64); without interfaces both are 0, and no
\* TxBytes enters the rx total nor RxBytes the tx total.
C12_NetworkSums ==
    \A u \in UnitIds : \A i \in DOMAIN sink[u] :
        LET networks == units[u].stats.networks
            rx == SumTo([k \in DOMAIN networks |-> networks[k].RxBytes], Len(networks))
            tx == SumTo([k \in DOMAIN networks |-> networks[k].TxBytes], Len(networks))
        IN  /\ sink[u][i].metric = "docker_container_network_rx_bytes_total" =>
                  /\ sink[u][i].value = AsSampleValue(rx)
                  /\ networks = <<>> => sink[u][i].value.num = 0
            /\ sink[u][i].metric = "docker_container_network_tx_bytes_total" =>
                  /\ sink[u][i].value = AsSampleValue(tx)
                  /\ networks = <<>> => sink[u][i].value.num = 0

C12_Witness ==
    \E u \in UnitIds :
        LET networks == units[u].stats.networks
        IN  /\ Len(sink[u]) >= 6
            /\ sink[u][5].metric = "docker_container_network_rx_bytes_total"
            /\ sink[u][6].metric = "docker_container_network_tx_bytes_total"
            /\ Len(networks) = 2
            /\ networks[1].RxBytes = 1 /\ networks[1].TxBytes = 0
            /\ networks[2].RxBytes = 1 /\ networks[2].TxBytes = 1
            /\ sink[u][5].value.num = 2
            /\ sink[u][6].value.num = 1

\* C13: with a LABEL_ template that does not parse the process ends in main,
\* before the docker client is created, before Describe is called for the
\* registration and before any scrape: it never serves, and nothing is ever
\* collected. In every scrape, therefore, each label of the environment has
\* the template that Parse returned for it without an error.
C13_InvalidTemplateEndsStartup ==
    LET invalid == \E l \in DOMAIN environ : ~Parse(environ[l]).ok
    IN  /\ invalid =>
              /\ proc \in {"starting", "exited"}
              /\ described = <<>>
              /\ phase = "idle"
              /\ \A u \in UnitIds : units[u].pc = "none" /\ sink[u] = <<>>
        /\ (proc = "serving" \/ phase # "idle") =>
              /\ DOMAIN extraLabels = DOMAIN environ
              /\ \A l \in DOMAIN environ :
                    Parse(environ[l]).ok /\ extraLabels[l] = Parse(environ[l]).segs

C13_Witness ==
    /\ proc = "exited"
    /\ \E l, k \in DOMAIN environ : ~Parse(environ[l]).ok /\ Parse(environ[k]).ok

\* The nine metrics of the README's example, in its order, each with its TYPE.
NineMetrics ==
    <<[metric |-> "docker_container_info", kind |-> "gauge"],
      [metric |-> "docker_container_cpu_seconds_total", kind |-> "counter"],
      [metric |-> "docker_container_memory_usage_bytes", kind |-> "gauge"],
      [metric |-> "docker_container_memory_limit_bytes", kind |-> "gauge"],
      [metric |-> "docker_container_network_rx_bytes_total", kind |-> "counter"],
      [metric |-> "docker_container_network_tx_bytes_total", kind |-> "counter"],
      [metric |-> "docker_container_blkio_read_bytes_total", kind |-> "counter"],
      [metric |-> "docker_container_blkio_write_bytes_total", kind |-> "counter"],
      [metric |-> "docker_container_pids", kind |-> "gauge"]>>

\* C14: what a container has sent so far is always a prefix of the nine
\* metrics in their fixed order (so each name at most once and in that order,
\* however the goroutines of other containers are scheduled between its
\* sends), and a running container whose inspect and stats succeeded has sent
\* all nine, no more, when its goroutine has ended.
C14_NineSamplesInFixedOrder ==
    \A u \in UnitIds :
        /\ Len(sink[u]) <= 9
        /\ \A i \in DOMAIN sink[u] :
              /\ sink[u][i].metric = NineMetrics[i].metric
              /\ sink[u][i].kind = NineMetrics[i].kind
        /\ (Done(u) /\ units[u].container.State = "running" /\ units[u].err = "") =>
              Len(sink[u]) = 9

C14_Witness ==
    \E u, v \in UnitIds :
        /\ u # v
        /\ Done(u) /\ units[u].container.State = "running" /\ units[u].err = ""
        /\ Len(sink[u]) = 9
        /\ sink[u][9].metric = "docker_container_pids"
        /\ ~Done(v) /\ Len(sink[v]) \in 2 .. 8

\* C15: in every sample that is sent, the value of a custom label whose
\* template failed to render for the container is the empty string; text the
\* template wrote before the failing reference is not the label's value.
C15_FailedRenderIsEmpty ==
    \A u \in UnitIds : \A i \in DOMAIN sink[u] :
        \A k \in 2 .. Len(sink[u][i].labelsNames) :
            Execute(extraLabels[sink[u][i].labelsNames[k]],
                    units[u].container, units[u].containerJson).err
                => sink[u][i].labelsValues[k] = <<>>

\* The name without its leading separators: what follows the last separator
\* of the longest prefix made of separators only.
LeadingStripped(name) ==
    LET isPrefix(n) == \A i \in 1 .. n : name[i] = "/"
        n == CHOOSE k \in 0 .. Len(name) :
                 isPrefix(k) /\ \A j \in 0 .. Len(name) : isPrefix(j) => j <= k
    IN  SubSeq(name, n + 1, Len(name))

\* C16: the value of the "name" label of every sample is the container's
\* first name without its leading separators "/" and otherwise unchanged: a
\* separator at the end of the name is kept.
C16_OnlyLeadingSeparatorStripped ==
    \A u \in UnitIds : \A i \in DOMAIN sink[u] :
        /\ sink[u][i].labelsNames[1] = "name"
        /\ sink[u][i].labelsValues[1] = LeadingStripped(units[u].container.Names[1])

\* C17: the step in which the inspect of a container fails sends nothing,
\* logs the error with the container's id, ends that goroutine alone and
\* leaves the process and the scrape running; a container whose inspect
\* failed has sent no sample, running or not, and has asked for no stats, and
\* every other container that has ended has sent exactly what its own answers
\* give.
C17_InspectFailureIsolated ==
    /\ [][\A u \in UnitIds :
             (units[u].pc = "inspect" /\ units'[u].pc = "done") =>
                 /\ units'[u].err = "inspect"
                 /\ sink' = sink
                 /\ logged' = logged \cup {[id |-> units[u].container.ID, err |-> "inspect"]}
                 /\ proc' = proc /\ phase' = phase
                 /\ \A v \in UnitIds \ {u} : units'[v] = units[v]]_vars
    /\ [](\A u \in UnitIds :
             (Done(u) /\ units[u].err = "inspect") =>
                 /\ sink[u] = <<>>
                 /\ units[u].statsCalls = 0 /\ units[u].body = "none" /\ units[u].closes = 0
                 /\ [id |-> units[u].container.ID, err |-> "inspect"] \in logged
                 /\ \A v \in UnitIds \ {u} : Done(v) => sink[v] = ExpectedSamples(units[v]))

C17_Witness ==
    \E u, v \in UnitIds :
        /\ Done(u) /\ units[u].err = "inspect" /\ units[u].container.State = "running"
        /\ sink[u] = <<>>
        /\ Done(v) /\ units[v].err = "" /\ Len(sink[v]) = 9
        /\ phase = "returned" /\ proc = "serving"

\* A sample as the scraper sees it: its labels as name -> value.
Normal(sample) ==
    [metric |-> sample.metric, kind |-> sample.kind, value |-> sample.value,
     labels |-> [l \in Range(sample.labelsNames) |->
                   sample.labelsValues[CHOOSE k \in DOMAIN sample.labelsNames :
                                           sample.labelsNames[k] = l]]]

\* The samples of one container as the label configuration and the runtime's
\* answers for that container in one scrape determine them: err is the call
\* that failed, if any.
ScrapeResult(config, container, containerJson, err) ==
    LET labels == [l \in {"name"} \cup DOMAIN config |->
                      IF l = "name" THEN Trim(container.Names[1], "/")
                      ELSE Execute(config[l], container, containerJson).out]
        metrics == IF err = "inspect" THEN <<>>
                   ELSE IF container.State # "running" \/ err # "" THEN <<"info">>
                   ELSE <<"info">> \o ResourceOrder
    IN  [i \in DOMAIN metrics |->
            [metric |-> MetricName(metrics[i]), kind |-> MetricKind(metrics[i]),
             value |-> IF metrics[i] = "info" THEN One
                       ELSE MetricValue(metrics[i], StatsOf(container.ID)),
             labels |-> labels]]

\* C18: a scrape starts with nothing of the scrapes before it (no goroutine,
\* no sample, no log line, no list, no counter: only the label configuration,
\* which no scrape changes), and what a scrape that has returned has emitted
\* is the function ScrapeResult of the label configuration and of the
\* runtime's answers in that scrape, for every scheduling of its goroutines.
\* Two scrapes with the same answers therefore emit the same samples.
C18_NoStateBetweenScrapes ==
    /\ [][(phase # "list" /\ phase' = "list") =>
             /\ units' = [u \in UnitIds |-> NoUnit]
             /\ sink' = [u \in UnitIds |-> <<>>]
             /\ containers' = <<>> /\ next' = 1 /\ wg' = 0
             /\ logged' = {} /\ cancelled' = FALSE]_vars
    /\ [][(phase # "idle") => extraLabels' = extraLabels /\ described' = described]_vars
    /\ [](phase = "returned" =>
             \A u \in UnitIds :
                 IF u <= Len(containers)
                 THEN [i \in DOMAIN sink[u] |-> Normal(sink[u][i])] =
                          ScrapeResult(extraLabels, containers[u], units[u].containerJson,
                                       units[u].err)
                 ELSE sink[u] = <<>>)

C18_Witness ==
    /\ phase = "returned" /\ proc = "serving"
    /\ Len(containers) = MaxContainers
    /\ logged # {}
    /\ \E u \in UnitIds : Len(sink[u]) = 9 /\ Len(sink[u][1].labelsNames) = 3

\* C19: during and after the loop of a scrape the goroutines started are
\* those of the first next - 1 containers of the list, one each, the u-th
\* working on the u-th container and on no other; the WaitGroup counts those
\* that have not ended; when the scrape returns every listed container has had
\* its goroutine; and a container has at most one info sample in the sink,
\* carrying its own name.
C19_OneUnitPerContainer ==
    phase \in {"loop", "returned"} =>
        /\ next \in 1 .. Len(containers) + 1
        /\ phase = "returned" => next = Len(containers) + 1
        /\ wg = Cardinality({u \in UnitIds : units[u].pc \notin {"none", "done"}})
        /\ \A u \in UnitIds :
              /\ units[u].pc # "none" <=> u < next
              /\ units[u].pc # "none" => units[u].container = containers[u]
              /\ Cardinality({i \in DOMAIN sink[u] :
                                 sink[u][i].metric = "docker_container_info"}) <= 1
              /\ \A i \in DOMAIN sink[u] :
                    sink[u][i].labelsValues[1] = <<Letters[containers[u].ID]>>
        /\ \A u, v \in UnitIds :
              (u # v /\ units[u].pc # "none" /\ units[v].pc # "none") =>
                  units[u].container.ID # units[v].container.ID

C19_Witness ==
    /\ phase = "returned"
    /\ Len(containers) = MaxContainers
    /\ \A u \in UnitIds :
          /\ Done(u) /\ Len(sink[u]) >= 1
          /\ sink[u][1].metric = "docker_container_info"

\* C20: with a label configuration that main and the registration accepted,
\* the label names a goroutine builds for its samples hold no name twice, and
\* no send of a sample panics in a scrape.
C20_NoLabelNameCollision ==
    /\ \A u \in UnitIds : NoDuplicates(units[u].labelsNames)
    /\ phase # "idle" => proc # "crashed"
====
